---- MODULE Spec2Model ----
(***************************************************************************)
(* Domain schema layer of app/models.py: the SQLModel entity classes       *)
(* (table=True), the request/response schemas (table=False), what          *)
(* constructing an instance of each does, and what the tables declared by  *)
(* the entity classes accept.                                              *)
(*                                                                         *)
(* Values are tagged records: str (a body of characters followed by `fill` *)
(* copies of the letter "a", so that a 256-character string is one small   *)
(* record), int, enum (the raw string handed to a str-Enum field), dec (a  *)
(* Decimal: coefficient and number of decimal places), bool, datetime,     *)
(* json, and None.                                                         *)
(***************************************************************************)
EXTENDS Integers, Sequences, FiniteSets, TLC

VARIABLES
    build,     \* which SQLModel the program runs on: "construct" or "drop_invalid"
    last,      \* the last construction: class, keyword arguments, outcome
    db,        \* table name -> sequence of stored rows (row id = position)
    pending,   \* session -> the operation the session has added and not yet flushed
    outcome,   \* session -> the session's last flushed operation and how it ended
    written    \* the Decimal values handed to successful writes: [cls, id, field, value]

vars == <<build, last, db, pending, outcome, written>>

----------------------------------------------------------------------------
\* Values

None == [t |-> "none"]
S(body, fill) == [t |-> "str", body |-> body, fill |-> fill]
I(n) == [t |-> "int", n |-> n]
E(s) == [t |-> "enum", s |-> s]
D(coef, places) == [t |-> "dec", coef |-> coef, places |-> places]
B(b) == [t |-> "bool", b |-> b]
Dt == [t |-> "datetime"]
Js == [t |-> "json"]

StrLen(v) == Len(v.body) + v.fill
Chars(v) == v.body \o [i \in 1..v.fill |-> "a"]

----------------------------------------------------------------------------
\* Enums (models.py 9-23): the values of the members

ReportType == {"industry", "company"}
UserRole == {"admin", "official", "viewer"}
InteractionType == {"question", "summary", "analysis"}

----------------------------------------------------------------------------
\* Field declarations.  Absent options are the empty sequence, present ones
\* a one-element sequence; default = <<>> is a required field.

FieldInfo(type, optional, default) ==
    [type |-> type, optional |-> optional, default |-> default,
     max_length |-> <<>>, min_length |-> <<>>, ge |-> <<>>, le |-> <<>>,
     regex |-> FALSE, enum |-> {}, decimal_places |-> <<>>, max_digits |-> <<>>,
     unique |-> FALSE, foreign_key |-> "", primary_key |-> FALSE]

Str(max) == [FieldInfo("str", FALSE, <<>>) EXCEPT !.max_length = <<max>>]
OptStr(max) == [FieldInfo("str", TRUE, <<None>>) EXCEPT !.max_length = <<max>>]
PlainStr == FieldInfo("str", FALSE, <<>>)
OptPlainStr == FieldInfo("str", TRUE, <<None>>)
IntField == FieldInfo("int", FALSE, <<>>)
IntDefault(n) == FieldInfo("int", FALSE, <<I(n)>>)
OptInt == FieldInfo("int", TRUE, <<None>>)
Bool == FieldInfo("bool", FALSE, <<>>)
BoolDefault(b) == FieldInfo("bool", FALSE, <<B(b)>>)
OptBool == FieldInfo("bool", TRUE, <<None>>)
DateTime == FieldInfo("datetime", FALSE, <<>>)
DateTimeNow == FieldInfo("datetime", FALSE, <<Dt>>)
OptDateTime == FieldInfo("datetime", TRUE, <<None>>)
Json == FieldInfo("json", FALSE, <<>>)
JsonDefault == FieldInfo("json", FALSE, <<Js>>)
Enum(members) == [FieldInfo("enum", FALSE, <<>>) EXCEPT !.enum = members]
EnumDefault(members, d) == [FieldInfo("enum", FALSE, <<E(d)>>) EXCEPT !.enum = members]
OptEnum(members) == [FieldInfo("enum", TRUE, <<None>>) EXCEPT !.enum = members]
OptDecimal(places, digits) ==
    [FieldInfo("dec", TRUE, <<None>>) EXCEPT !.decimal_places = <<places>>,
                                             !.max_digits = <<digits>>]
PrimaryKey == [FieldInfo("int", TRUE, <<None>>) EXCEPT !.primary_key = TRUE]
ForeignKey(target) == [FieldInfo("int", FALSE, <<>>) EXCEPT !.foreign_key = target]
OptForeignKey(target) == [FieldInfo("int", TRUE, <<None>>) EXCEPT !.foreign_key = target]
Unique(fd) == [fd EXCEPT !.unique = TRUE]

----------------------------------------------------------------------------
\* Persistent models (table=True)

User ==
    [id |-> PrimaryKey,
     username |-> Unique(Str(100)),
     email |-> [Unique(Str(255)) EXCEPT !.regex = TRUE],
     full_name |-> Str(200),
     role |-> EnumDefault(UserRole, "official"),
     is_active |-> BoolDefault(TRUE),
     password_hash |-> Str(255),
     created_at |-> DateTimeNow,
     last_login |-> OptDateTime]

APICredentials ==
    [id |-> PrimaryKey,
     service_name |-> Str(100),
     api_key |-> Str(500),
     api_secret |-> OptStr(500),
     base_url |-> OptStr(500),
     is_active |-> BoolDefault(TRUE),
     created_at |-> DateTimeNow,
     updated_at |-> DateTimeNow,
     created_by_user_id |-> ForeignKey("User")]

IBISWorldReport ==
    [id |-> PrimaryKey,
     report_id |-> Unique(Str(100)),
     title |-> Str(500),
     report_type |-> Enum(ReportType),
     industry_code |-> OptStr(50),
     company_name |-> OptStr(300),
     description |-> [Str(2000) EXCEPT !.default = <<S(<<>>, 0)>>],
     publication_date |-> OptDateTime,
     report_url |-> OptStr(1000),
     page_count |-> OptInt,
     report_size_mb |-> OptDecimal(2, 10),
     tags |-> JsonDefault,
     is_cached |-> BoolDefault(FALSE),
     cache_expiry |-> OptDateTime,
     last_accessed |-> OptDateTime,
     access_count |-> IntDefault(0),
     created_at |-> DateTimeNow,
     updated_at |-> DateTimeNow]

ReportInteraction ==
    [id |-> PrimaryKey,
     user_id |-> ForeignKey("User"),
     report_id |-> ForeignKey("IBISWorldReport"),
     interaction_type |-> Enum(InteractionType),
     question |-> OptStr(1000),
     response |-> Str(10000),
     claude_model |-> [Str(100) EXCEPT !.default = <<S(<<"c">>, 23)>>],
     tokens_used |-> OptInt,
     response_time_ms |-> OptInt,
     created_at |-> DateTimeNow]

SearchHistory ==
    [id |-> PrimaryKey,
     user_id |-> ForeignKey("User"),
     search_query |-> Str(500),
     search_filters |-> JsonDefault,
     results_count |-> IntDefault(0),
     created_at |-> DateTimeNow]

SearchResult ==
    [id |-> PrimaryKey,
     search_history_id |-> ForeignKey("SearchHistory"),
     report_id |-> ForeignKey("IBISWorldReport"),
     relevance_score |-> OptDecimal(4, 10),
     result_rank |-> IntDefault(0)]

ReportCache ==
    [id |-> PrimaryKey,
     cache_key |-> Unique(Str(255)),
     cache_type |-> Str(50),
     cache_data |-> Json,
     expires_at |-> DateTime,
     created_at |-> DateTimeNow,
     hit_count |-> IntDefault(0),
     last_hit |-> OptDateTime]

AuditLog ==
    [id |-> PrimaryKey,
     user_id |-> OptForeignKey("User"),
     action |-> Str(100),
     resource_type |-> OptStr(100),
     resource_id |-> OptStr(255),
     details |-> JsonDefault,
     ip_address |-> OptStr(45),
     user_agent |-> OptStr(500),
     created_at |-> DateTimeNow]

----------------------------------------------------------------------------
\* Non-persistent schemas (table=False)

UserCreate ==
    [username |-> Str(100),
     email |-> Str(255),
     full_name |-> Str(200),
     password |-> [Str(255) EXCEPT !.min_length = <<8>>],
     role |-> EnumDefault(UserRole, "official")]

UserUpdate ==
    [full_name |-> OptStr(200),
     email |-> OptStr(255),
     role |-> OptEnum(UserRole),
     is_active |-> OptBool]

UserLogin ==
    [username |-> Str(100),
     password |-> Str(255)]

ReportSearch ==
    [query |-> Str(500),
     report_type |-> OptEnum(ReportType),
     industry_codes |-> JsonDefault,
     publication_date_from |-> OptDateTime,
     publication_date_to |-> OptDateTime,
     limit |-> [IntDefault(20) EXCEPT !.ge = <<1>>, !.le = <<100>>],
     offset |-> [IntDefault(0) EXCEPT !.ge = <<0>>]]

ReportInteractionCreate ==
    [report_id |-> IntField,
     interaction_type |-> Enum(InteractionType),
     question |-> OptStr(1000)]

APICredentialsCreate ==
    [service_name |-> Str(100),
     api_key |-> Str(500),
     api_secret |-> OptStr(500),
     base_url |-> OptStr(500)]

APICredentialsUpdate ==
    [api_key |-> OptStr(500),
     api_secret |-> OptStr(500),
     base_url |-> OptStr(500),
     is_active |-> OptBool]

ReportSummary ==
    [id |-> IntField,
     report_id |-> PlainStr,
     title |-> PlainStr,
     report_type |-> Enum(ReportType),
     industry_code |-> OptPlainStr,
     company_name |-> OptPlainStr,
     publication_date |-> OptPlainStr,
     last_accessed |-> OptPlainStr,
     access_count |-> IntField,
     is_cached |-> Bool]

InteractionHistory ==
    [interactions |-> JsonDefault,
     total_count |-> IntField,
     user_name |-> PlainStr,
     report_title |-> PlainStr]

Tables == {"User", "APICredentials", "IBISWorldReport", "ReportInteraction",
           "SearchHistory", "SearchResult", "ReportCache", "AuditLog"}

Schemas == {"UserCreate", "UserUpdate", "UserLogin", "ReportSearch",
            "ReportInteractionCreate", "APICredentialsCreate",
            "APICredentialsUpdate", "ReportSummary", "InteractionHistory"}

Classes == Tables \cup Schemas

Fields(cls) ==
    CASE cls = "User" -> User
      [] cls = "APICredentials" -> APICredentials
      [] cls = "IBISWorldReport" -> IBISWorldReport
      [] cls = "ReportInteraction" -> ReportInteraction
      [] cls = "SearchHistory" -> SearchHistory
      [] cls = "SearchResult" -> SearchResult
      [] cls = "ReportCache" -> ReportCache
      [] cls = "AuditLog" -> AuditLog
      [] cls = "UserCreate" -> UserCreate
      [] cls = "UserUpdate" -> UserUpdate
      [] cls = "UserLogin" -> UserLogin
      [] cls = "ReportSearch" -> ReportSearch
      [] cls = "ReportInteractionCreate" -> ReportInteractionCreate
      [] cls = "APICredentialsCreate" -> APICredentialsCreate
      [] cls = "APICredentialsUpdate" -> APICredentialsUpdate
      [] cls = "ReportSummary" -> ReportSummary
      [] cls = "InteractionHistory" -> InteractionHistory

IsTable(cls) == cls \in Tables

----------------------------------------------------------------------------
\* The pattern of User.email:  ^[a-zA-Z0-9_.+-]+@[a-zA-Z0-9-]+\.[a-zA-Z0-9-.]+$

Alnum == {"a", "e", "i", "l", "m", "n", "o", "t", "Z", "0", "9"}
LocalChars == Alnum \cup {"_", ".", "+", "-"}
DomainChars == Alnum \cup {"-"}
TailChars == Alnum \cup {"-", "."}

EmailMatch(s) ==
    \E i \in 1..Len(s) : \E j \in 1..Len(s) :
        /\ s[i] = "@"
        /\ s[j] = "."
        /\ 1 < i /\ i + 1 < j /\ j < Len(s)
        /\ \A k \in 1..(i - 1) : s[k] \in LocalChars
        /\ \A k \in (i + 1)..(j - 1) : s[k] \in DomainChars
        /\ \A k \in (j + 1)..Len(s) : s[k] \in TailChars

----------------------------------------------------------------------------
\* Field validation (what pydantic checks for the options Field() was given)

RECURSIVE NumDigits(_)
NumDigits(n) == IF n < 10 THEN 1 ELSE 1 + NumDigits(n \div 10)

\* Decimal(max_digits, decimal_places): the digits of the coefficient, the
\* digits after the point, and the digits before it.
DecimalValid(fd, v) ==
    LET len == NumDigits(v.coef)
        digits == IF v.places > len THEN v.places ELSE len
        decimals == v.places
        whole == digits - decimals
    IN  /\ fd.max_digits = <<>> \/ digits <= fd.max_digits[1]
        /\ fd.decimal_places = <<>> \/ decimals <= fd.decimal_places[1]
        /\ (fd.max_digits = <<>> \/ fd.decimal_places = <<>>
            \/ whole <= fd.max_digits[1] - fd.decimal_places[1])

\* StrValid without the minimum length
StrValidNoMin(fd, v) ==
    /\ fd.max_length = <<>> \/ StrLen(v) <= fd.max_length[1]
    /\ fd.regex => EmailMatch(Chars(v))

StrValid(fd, v) ==
    /\ fd.max_length = <<>> \/ StrLen(v) <= fd.max_length[1]
    /\ fd.min_length = <<>> \/ StrLen(v) >= fd.min_length[1]
    /\ fd.regex => EmailMatch(Chars(v))

\* IntValid with ge read as gt
IntValidExclusive(fd, v) ==
    /\ fd.ge = <<>> \/ v.n > fd.ge[1]
    /\ fd.le = <<>> \/ v.n <= fd.le[1]

IntValid(fd, v) ==
    /\ fd.ge = <<>> \/ v.n >= fd.ge[1]
    /\ fd.le = <<>> \/ v.n <= fd.le[1]

EnumValid(fd, v) == v.s \in fd.enum

FieldValid(fd, v) ==
    IF v.t = "none" THEN fd.optional
    ELSE CASE fd.type = "str" -> StrValid(fd, v)
           [] fd.type = "int" -> IntValid(fd, v)
           [] fd.type = "enum" -> EnumValid(fd, v)
           [] fd.type = "dec" -> DecimalValid(fd, v)
           [] OTHER -> TRUE

\* The fields of cls that the keyword arguments kw get wrong: a value that
\* breaks its field's declaration, or a required field left out.
Errors(cls, kw) ==
    {f \in DOMAIN Fields(cls) :
        IF f \in DOMAIN kw THEN ~FieldValid(Fields(cls)[f], kw[f])
        ELSE Fields(cls)[f].default = <<>>}

----------------------------------------------------------------------------
\* Construction

Unset == [t |-> "unset"]
NoObject == [f \in {} |-> Unset]

\* table=False: pydantic's __init__ validates; defaults fill what is left out.
SchemaInit(cls, kw) ==
    IF Errors(cls, kw) # {}
    THEN [ok |-> FALSE, errors |-> Errors(cls, kw), obj |-> NoObject]
    ELSE [ok |-> TRUE, errors |-> {},
          obj |-> [f \in DOMAIN Fields(cls) |->
                     IF f \in DOMAIN kw THEN kw[f] ELSE Fields(cls)[f].default[1]]]

\* table=True: SQLModel's __init__ never raises for a table model.  Either it
\* sets every keyword argument as given (sqlmodel_table_construct), or it sets
\* only the values that validated (validate_model's values); a field with
\* neither a value nor a default stays unset.
TableInit(cls, kw, b) ==
    [ok |-> TRUE, errors |-> {},
     obj |-> [f \in DOMAIN Fields(cls) |->
                IF f \in DOMAIN kw /\ (b = "construct" \/ f \notin Errors(cls, kw))
                THEN kw[f]
                ELSE IF f \notin DOMAIN kw /\ Fields(cls)[f].default # <<>>
                THEN Fields(cls)[f].default[1]
                ELSE Unset]]

New(cls, kw, b) == IF IsTable(cls) THEN TableInit(cls, kw, b) ELSE SchemaInit(cls, kw)

----------------------------------------------------------------------------
\* Inputs.  A call names keyword arguments; the ones tried are the boundary
\* values of each field's declaration, None, and leaving the field out.

MaxEmailLen == 5

Builds == {"construct", "drop_invalid"}

Omit == [t |-> "omit"]
EmailPrefix == <<"a", "@", "a", ".">>
NotAnEmail == S(<<"n", "o", "t", "-", "a", "n", "-", "e", "m", "a", "i", "l">>, 0)
EmailAlphabet == {"a", "_", ".", "@", " "}
Emails == UNION {[1..n -> EmailAlphabet] : n \in 0..MaxEmailLen}

Lens(fd) ==
    {0, 1}
    \cup (IF fd.max_length = <<>> THEN {} ELSE {fd.max_length[1], fd.max_length[1] + 1})
    \cup (IF fd.min_length = <<>> THEN {} ELSE {fd.min_length[1] - 1, fd.min_length[1]})

StrSamples(fd) ==
    {S(<<>>, n) : n \in Lens(fd)}
    \cup {S(EmailPrefix, n - Len(EmailPrefix)) : n \in {m \in Lens(fd) : m > Len(EmailPrefix)}}
    \cup {NotAnEmail}

IntSamples(fd) ==
    {I(0), I(1)}
    \cup (IF fd.ge = <<>> THEN {} ELSE {I(fd.ge[1] - 1), I(fd.ge[1])})
    \cup (IF fd.le = <<>> THEN {} ELSE {I(fd.le[1]), I(fd.le[1] + 1)})

EnumSamples(fd) == {E(m) : m \in fd.enum \cup {"invalid"}}

\* 0.1234, 0.12345, 0.5, 0, 12.34, 12.345, 1234567 (seven whole digits),
\* 123456789 (nine whole digits)
DecimalSamples ==
    {D(1234, 4), D(12345, 5), D(5, 1), D(0, 0), D(1234, 2), D(12345, 3),
     D(1234567, 0), D(123456789, 0)}

Samples(fd) ==
    {None, Omit}
    \cup CASE fd.type = "str" -> StrSamples(fd)
           [] fd.type = "int" -> IntSamples(fd)
           [] fd.type = "enum" -> EnumSamples(fd)
           [] fd.type = "dec" -> DecimalSamples
           [] fd.type = "bool" -> {B(TRUE), B(FALSE)}
           [] fd.type = "datetime" -> {Dt}
           [] fd.type = "json" -> {Js}

\* A value every declaration of its type accepts ("a@a.aaaa" for a str).
BaseValue(fd) ==
    CASE fd.type = "str" -> S(EmailPrefix, 4)
      [] fd.type = "int" -> I(1)
      [] fd.type = "enum" -> E(CHOOSE m \in fd.enum : TRUE)
      [] fd.type = "dec" -> D(1234, 4)
      [] fd.type = "bool" -> B(TRUE)
      [] fd.type = "datetime" -> Dt
      [] fd.type = "json" -> Js

\* The required fields, each with a valid value.
Base(cls) ==
    [f \in {g \in DOMAIN Fields(cls) : Fields(cls)[g].default = <<>>} |->
        BaseValue(Fields(cls)[f])]

With(kw, f, v) ==
    IF v = Omit THEN [g \in DOMAIN kw \ {f} |-> kw[g]]
    ELSE [g \in DOMAIN kw \cup {f} |-> IF g = f THEN v ELSE kw[g]]

----------------------------------------------------------------------------
\* Construction of one instance

NoTables == [t \in Tables |-> <<>>]
Sessions == {"s1", "s2"}
NoOp == [op |-> "none"]
NoOutcome == [kind |-> "none", op |-> NoOp]

Nothing == [cls |-> "", kw |-> NoObject, res |-> [ok |-> FALSE, errors |-> {}, obj |-> NoObject]]

Init ==
    /\ build \in Builds
    /\ last = Nothing
    /\ db = NoTables
    /\ pending = [s \in Sessions |-> NoOp]
    /\ outcome = [s \in Sessions |-> NoOutcome]
    /\ written = {}

\* cls(**kw)
Construct(cls, kw) ==
    /\ last' = [cls |-> cls, kw |-> kw, res |-> New(cls, kw, build)]
    /\ UNCHANGED <<build, db, pending, outcome, written>>

\* a call with the base arguments changed in up to two fields
ConstructAny ==
    /\ last = Nothing
    /\ \E cls \in Classes : \E f1 \in DOMAIN Fields(cls), f2 \in DOMAIN Fields(cls) :
          \E v1 \in Samples(Fields(cls)[f1]), v2 \in Samples(Fields(cls)[f2]) :
              Construct(cls, With(With(Base(cls), f1, v1), f2, v2))

\* a call with, as email, each short string over the pattern's character classes
ConstructEmail ==
    /\ last = Nothing
    /\ \E cls \in {"User", "UserCreate", "UserUpdate"} : \E chars \in Emails :
          Construct(cls, With(Base(cls), "email", S(chars, 0)))

\* the instance (or the error) is dropped; the next call starts afresh
Discard ==
    /\ last # Nothing
    /\ last' = Nothing
    /\ UNCHANGED <<build, db, pending, outcome, written>>

Next == ConstructAny \/ ConstructEmail \/ Discard

Spec == Init /\ [][Next]_vars

----------------------------------------------------------------------------
\* The tables.  A class with table=True declares a table: a column per
\* field, NOT NULL unless the field is Optional, the Field default as the
\* column default, UNIQUE and FOREIGN KEY where Field says so, and
\* NUMERIC(max_digits, decimal_places) for a Decimal.

RECURSIVE Pow10(_)
Pow10(n) == IF n = 0 THEN 1 ELSE 10 * Pow10(n - 1)

\* the digits before the decimal point
WholeDigits(v) ==
    IF v.coef \div Pow10(v.places) = 0 THEN 0 ELSE NumDigits(v.coef \div Pow10(v.places))

\* v at `scale` decimal places, rounded half away from zero
Quantize(v, scale) ==
    IF v.places <= scale
    THEN D(v.coef * Pow10(scale - v.places), scale)
    ELSE D((v.coef + 5 * Pow10(v.places - scale - 1)) \div Pow10(v.places - scale), scale)

\* NUMERIC(precision, scale) has no room for v
NumericOverflow(fd, v) ==
    \/ WholeDigits(v) > fd.max_digits[1] - fd.decimal_places[1]
    \/ NumDigits(Quantize(v, fd.decimal_places[1]).coef) > fd.max_digits[1]

\* Decimal equality is numeric: 0.5 = 0.5000
NumEq(v, w) == v.coef * Pow10(w.places) = w.coef * Pow10(v.places)

IsNull(v) == v.t \in {"none", "unset"}

\* The values of the INSERT: what the instance holds, the column default
\* where it holds nothing, NULL where there is none
ColumnValues(cls, obj) ==
    [f \in DOMAIN Fields(cls) |->
        IF obj[f].t = "unset"
        THEN IF Fields(cls)[f].default # <<>> THEN Fields(cls)[f].default[1] ELSE None
        ELSE obj[f]]

\* A row as the table holds it
Stored(cls, row) ==
    [f \in DOMAIN Fields(cls) |->
        IF row[f].t = "dec" THEN Quantize(row[f], Fields(cls)[f].decimal_places[1])
        ELSE row[f]]

NotNullOK(cls, row) ==
    \A f \in DOMAIN Fields(cls) :
        IsNull(row[f]) => (Fields(cls)[f].optional \/ Fields(cls)[f].primary_key)

NumericOK(cls, row) ==
    \A f \in DOMAIN Fields(cls) :
        row[f].t = "dec" => ~NumericOverflow(Fields(cls)[f], row[f])

\* UNIQUE without the check
UniqueOKNone(rows, cls, row, self) == TRUE

\* UNIQUE checked when a row is inserted and not when one is updated
UniqueOKInsertOnly(rows, cls, row, self) ==
    self = 0 =>
        \A f \in DOMAIN Fields(cls) :
            (Fields(cls)[f].unique /\ ~IsNull(row[f])) =>
                \A i \in 1..Len(rows) : rows[i][f] # row[f]

\* no other row (self is the row being updated, 0 for an insert) has the
\* value of a unique column
UniqueOK(rows, cls, row, self) ==
    \A f \in DOMAIN Fields(cls) :
        (Fields(cls)[f].unique /\ ~IsNull(row[f])) =>
            \A i \in 1..Len(rows) : i # self => rows[i][f] # row[f]

\* FOREIGN KEY without the check
ForeignKeysOKNone(tables, cls, row) == TRUE

\* every foreign key that is not NULL is the id of a row of its target
ForeignKeysOK(tables, cls, row) ==
    \A f \in DOMAIN Fields(cls) :
        (Fields(cls)[f].foreign_key # "" /\ ~IsNull(row[f])) =>
            row[f].n \in 1..Len(tables[Fields(cls)[f].foreign_key])

\* How the write of `row` ends
WriteOutcome(tables, cls, row, self) ==
    IF ~NotNullOK(cls, row) THEN "NotNullViolation"
    ELSE IF ~NumericOK(cls, row) THEN "NumericOverflow"
    ELSE IF ~UniqueOK(tables[cls], cls, row, self) THEN "UniquenessViolation"
    ELSE IF ~ForeignKeysOK(tables, cls, row) THEN "ReferentialIntegrityError"
    ELSE "ok"

\* INSERT: the new row gets the next id
InsertRow(tables, cls, obj) ==
    [ColumnValues(cls, obj) EXCEPT !.id = I(Len(tables[cls]) + 1)]

\* UPDATE of row id: the changed columns over the row as it is now
UpdateRow(tables, cls, id, changes) ==
    [f \in DOMAIN Fields(cls) |->
        IF f \in DOMAIN changes THEN changes[f] ELSE tables[cls][id][f]]

\* The tables after the operation op, and how it ended
Flushed(tables, op) ==
    IF op.op = "insert"
    THEN LET row == InsertRow(tables, op.cls, op.obj)
             res == WriteOutcome(tables, op.cls, row, 0)
         IN  [outcome |-> res,
              db |-> IF res = "ok"
                     THEN [tables EXCEPT ![op.cls] = Append(@, Stored(op.cls, row))]
                     ELSE tables]
    ELSE LET row == UpdateRow(tables, op.cls, op.id, op.changes)
             res == WriteOutcome(tables, op.cls, row, op.id)
         IN  [outcome |-> res,
              db |-> IF res = "ok"
                     THEN [tables EXCEPT ![op.cls][op.id] = Stored(op.cls, row)]
                     ELSE tables]

----------------------------------------------------------------------------
\* Sessions: an operation is added to a session and then flushed.

MaxRows == 5

RowCount ==
    Len(db["User"]) + Len(db["APICredentials"]) + Len(db["IBISWorldReport"])
    + Len(db["ReportInteraction"]) + Len(db["SearchHistory"]) + Len(db["SearchResult"])
    + Len(db["ReportCache"]) + Len(db["AuditLog"])

PendingInserts == Cardinality({s \in Sessions : pending[s].op = "insert"})

\* The Decimal values of the operation op, which wrote row id
Decimals(op, id) ==
    LET vals == IF op.op = "insert" THEN op.obj ELSE op.changes
    IN  {[cls |-> op.cls, id |-> id, field |-> f, value |-> vals[f]] :
            f \in {g \in DOMAIN vals : vals[g].t = "dec"}}

\* The session's operation reaches the database
Commit(s, op) ==
    LET r == Flushed(db, op)
        id == IF op.op = "insert" THEN Len(r.db[op.cls]) ELSE op.id
    IN  /\ db' = r.db
        /\ outcome' = [outcome EXCEPT ![s] = [kind |-> r.outcome, op |-> op]]
        /\ written' = IF r.outcome = "ok"
                      THEN {w \in written : ~(w.cls = op.cls /\ w.id = id
                                              /\ w.field \in {d.field : d \in Decimals(op, id)})}
                           \cup Decimals(op, id)
                      ELSE written
        /\ UNCHANGED <<build, last>>

InsertOp(cls, kw) == [op |-> "insert", cls |-> cls, obj |-> New(cls, kw, build).obj]
UpdateOp(cls, id, changes) == [op |-> "update", cls |-> cls, id |-> id, changes |-> changes]

\* session.add(cls(**kw))
Add(s, cls, kw) ==
    /\ pending[s] = NoOp
    /\ RowCount + PendingInserts < MaxRows
    /\ pending' = [pending EXCEPT ![s] = InsertOp(cls, kw)]
    /\ outcome' = [outcome EXCEPT ![s] = NoOutcome]
    /\ UNCHANGED <<build, last, db, written>>

\* attributes of the loaded row id are set
Change(s, cls, id, changes) ==
    /\ pending[s] = NoOp
    /\ id \in 1..Len(db[cls])
    /\ pending' = [pending EXCEPT ![s] = UpdateOp(cls, id, changes)]
    /\ outcome' = [outcome EXCEPT ![s] = NoOutcome]
    /\ UNCHANGED <<build, last, db, written>>

\* the session's pending operation is flushed and committed
Flush(s) ==
    /\ pending[s] # NoOp
    /\ Commit(s, pending[s])
    /\ pending' = [pending EXCEPT ![s] = NoOp]

\* Inputs of the writes: two keys ("a@a.a", "a@a.aa"), and as a foreign key
\* the ids of the target's rows and one id more
Keys == {S(EmailPrefix, 1), S(EmailPrefix, 2)}
Ids(cls) == {I(n) : n \in 1..(Len(db[cls]) + 1)}

UserKw(u, e) == With(With(Base("User"), "username", u), "email", e)
ReportKw(k, size) == With(With(Base("IBISWorldReport"), "report_id", k), "report_size_mb", size)
CacheKw(k) == With(Base("ReportCache"), "cache_key", k)
CredentialsKw(uid) == With(Base("APICredentials"), "created_by_user_id", uid)
InteractionKw(uid, rid) == With(With(Base("ReportInteraction"), "user_id", uid), "report_id", rid)
SearchKw(uid) == With(Base("SearchHistory"), "user_id", uid)
ResultKw(sid, rid, rank, score) ==
    With(With(With(With(Base("SearchResult"), "search_history_id", sid), "report_id", rid),
              "result_rank", rank), "relevance_score", score)
AuditKw(uid) == With(Base("AuditLog"), "user_id", uid)

\* The changes a validated UserUpdate(**kw) asks for: the fields it was given
UserUpdateChanges(kw) ==
    [f \in DOMAIN kw |-> SchemaInit("UserUpdate", kw).obj[f]]

----------------------------------------------------------------------------
\* The operations of a session

AddUser(s, keys) == \E u \in keys, e \in keys : Add(s, "User", UserKw(u, e))

AddReport(s, keys, sizes) ==
    \E k \in keys, size \in sizes : Add(s, "IBISWorldReport", ReportKw(k, size))

AddCache(s) == \E k \in Keys : Add(s, "ReportCache", CacheKw(k))

AddCredentials(s) ==
    \E uid \in Ids("User") \cup {Omit} : Add(s, "APICredentials", CredentialsKw(uid))

AddInteraction(s) ==
    \E uid \in Ids("User") \cup {Omit}, rid \in Ids("IBISWorldReport") :
        Add(s, "ReportInteraction", InteractionKw(uid, rid))

AddSearch(s) ==
    \E uid \in Ids("User") \cup {Omit} : Add(s, "SearchHistory", SearchKw(uid))

AddResult(s, ranks, scores) ==
    \E sid \in Ids("SearchHistory"), rid \in Ids("IBISWorldReport"),
       rank \in ranks, score \in scores :
        Add(s, "SearchResult", ResultKw(sid, rid, rank, score))

AddAudit(s) ==
    \E uid \in Ids("User") \cup {None, Omit} : Add(s, "AuditLog", AuditKw(uid))

\* a UserUpdate with an email, validated, applied to a stored User
ChangeUserEmail(s) ==
    \E id \in 1..Len(db["User"]), e \in Keys :
        /\ SchemaInit("UserUpdate", [email |-> e]).ok
        /\ Change(s, "User", id, UserUpdateChanges([email |-> e]))

ChangeReportId(s) ==
    \E id \in 1..Len(db["IBISWorldReport"]), k \in Keys :
        Change(s, "IBISWorldReport", id, [report_id |-> k])

ChangeCacheKey(s) ==
    \E id \in 1..Len(db["ReportCache"]), k \in Keys :
        Change(s, "ReportCache", id, [cache_key |-> k])

\* a stored SearchResult is pointed at another report
MoveResult(s) ==
    \E id \in 1..Len(db["SearchResult"]), rid \in Ids("IBISWorldReport") :
        Change(s, "SearchResult", id, [report_id |-> rid])

\* a stored SearchResult is given a new score
SetScore(s) ==
    \E id \in 1..Len(db["SearchResult"]), score \in DecimalSamples :
        Change(s, "SearchResult", id, [relevance_score |-> score])

\* the stored value of a Decimal column is read and written back
Rewrite(cls, f) ==
    \E id \in 1..Len(db[cls]) :
        /\ ~IsNull(db[cls][id][f])
        /\ db' = Flushed(db, UpdateOp(cls, id, [g \in {f} |-> db[cls][id][f]])).db
        /\ UNCHANGED <<build, last, pending, outcome, written>>

----------------------------------------------------------------------------
\* Two sessions, each inserting one User

AddFirstUser(s) == outcome[s] = NoOutcome /\ AddUser(s, Keys)

NextConcurrent == \E s \in Sessions : AddFirstUser(s) \/ Flush(s)

SpecConcurrent == Init /\ [][NextConcurrent]_vars

----------------------------------------------------------------------------
\* One session writing the tables that have unique columns

NextUnique ==
    \/ AddUser("s1", Keys)
    \/ AddReport("s1", Keys, {Omit})
    \/ AddCache("s1")
    \/ ChangeUserEmail("s1")
    \/ ChangeReportId("s1")
    \/ ChangeCacheKey("s1")
    \/ Flush("s1")

SpecUnique == Init /\ [][NextUnique]_vars

----------------------------------------------------------------------------
\* One session writing the tables that reference each other

OneKey == {S(EmailPrefix, 1)}

NextRefs ==
    \/ AddUser("s1", OneKey)
    \/ AddReport("s1", Keys, {Omit})
    \/ AddCredentials("s1")
    \/ AddInteraction("s1")
    \/ AddSearch("s1")
    \/ AddResult("s1", {Omit, I(1)}, {Omit})
    \/ AddAudit("s1")
    \/ MoveResult("s1")
    \/ Flush("s1")

SpecRefs == Init /\ [][NextRefs]_vars

----------------------------------------------------------------------------
\* One session writing and rewriting the Decimal columns

NextDecimal ==
    \/ AddUser("s1", OneKey)
    \/ AddReport("s1", OneKey, DecimalSamples)
    \/ AddSearch("s1")
    \/ AddResult("s1", {Omit}, DecimalSamples)
    \/ SetScore("s1")
    \/ Rewrite("SearchResult", "relevance_score")
    \/ Rewrite("IBISWorldReport", "report_size_mb")
    \/ Flush("s1")

SpecDecimal == Init /\ [][NextDecimal]_vars

----------------------------------------------------------------------------
\* Properties of construction

Given(f) == f \in DOMAIN last.kw
GivenStr(f) == Given(f) /\ last.kw[f].t = "str"
GivenInt(f) == Given(f) /\ last.kw[f].t = "int"

\* C1: a User constructed with an email that does not match the pattern is
\* refused, and a User instance constructed from an email has a matching one.
C1_UserEmailMatches ==
    (last.cls = "User" /\ GivenStr("email")) =>
        /\ ~EmailMatch(Chars(last.kw.email)) => ~last.res.ok
        /\ last.res.ok =>
              /\ last.res.obj.email.t = "str"
              /\ EmailMatch(Chars(last.res.obj.email))

\* C2: in every class, an enum field given a value outside its enum makes
\* the construction fail, and a value inside it is accepted.
C2_EnumsClosed ==
    last.cls \in Classes =>
        \A f \in DOMAIN Fields(last.cls) :
            (Fields(last.cls)[f].type = "enum" /\ Given(f) /\ last.kw[f].t = "enum") =>
                /\ last.kw[f].s \notin Fields(last.cls)[f].enum => ~last.res.ok
                /\ last.kw[f].s \in Fields(last.cls)[f].enum => f \notin last.res.errors

\* C3: a ReportSearch is constructed exactly when nothing is wrong with its
\* arguments; limit is wrong exactly outside 1..100 and offset exactly below
\* 0; an instance has 1 <= limit <= 100 and offset >= 0, and limit 20 and
\* offset 0 where they were left out.
C3_ReportSearchBounds ==
    last.cls = "ReportSearch" =>
        /\ last.res.ok <=> last.res.errors = {}
        /\ GivenInt("limit") =>
              ("limit" \in last.res.errors <=> last.kw.limit.n \notin 1..100)
        /\ GivenInt("offset") =>
              ("offset" \in last.res.errors <=> last.kw.offset.n < 0)
        /\ ~Given("limit") => "limit" \notin last.res.errors
        /\ ~Given("offset") => "offset" \notin last.res.errors
        /\ last.res.ok =>
              /\ last.res.obj.limit.n \in 1..100
              /\ last.res.obj.offset.n >= 0
              /\ ~Given("limit") => last.res.obj.limit = I(20)
              /\ ~Given("offset") => last.res.obj.offset = I(0)

\* limit=100 and offset=0 given and accepted
C3_Witness ==
    /\ last.cls = "ReportSearch"
    /\ GivenInt("limit") /\ last.kw.limit.n = 100
    /\ GivenInt("offset") /\ last.kw.offset.n = 0
    /\ last.res.ok
    /\ last.res.obj.limit = I(100)

\* C4: a UserCreate's password is refused exactly when its length is outside
\* 8..255, the construction succeeds exactly when no field is refused, and
\* no other str field of any class refuses a string for being too short.
C4_PasswordLength ==
    /\ last.cls = "UserCreate" =>
          /\ last.res.ok <=> last.res.errors = {}
          /\ GivenStr("password") =>
                ("password" \in last.res.errors
                    <=> StrLen(last.kw.password) \notin 8..255)
    /\ last.cls \in Classes =>
          \A f \in last.res.errors :
              (/\ GivenStr(f)
               /\ Fields(last.cls)[f].type = "str"
               /\ (Fields(last.cls)[f].max_length = <<>>
                   \/ StrLen(last.kw[f]) <= Fields(last.cls)[f].max_length[1]))
              => (last.cls = "UserCreate" /\ f = "password" /\ StrLen(last.kw[f]) < 8)

\* a 7-character password refused, everything else being valid
C4_Witness ==
    /\ last.cls = "UserCreate"
    /\ GivenStr("password") /\ StrLen(last.kw.password) = 7
    /\ last.res.errors = {"password"}
    /\ ~last.res.ok

\* The fields a schema shares with its entity: <<schema, field, entity, field>>
SharedFields ==
    {<<"UserCreate", "username", "User", "username">>,
     <<"UserCreate", "email", "User", "email">>,
     <<"UserCreate", "full_name", "User", "full_name">>,
     <<"UserCreate", "role", "User", "role">>,
     <<"UserUpdate", "full_name", "User", "full_name">>,
     <<"UserUpdate", "email", "User", "email">>,
     <<"UserUpdate", "role", "User", "role">>,
     <<"UserUpdate", "is_active", "User", "is_active">>,
     <<"APICredentialsCreate", "service_name", "APICredentials", "service_name">>,
     <<"APICredentialsCreate", "api_key", "APICredentials", "api_key">>,
     <<"APICredentialsCreate", "api_secret", "APICredentials", "api_secret">>,
     <<"APICredentialsCreate", "base_url", "APICredentials", "base_url">>,
     <<"APICredentialsUpdate", "api_key", "APICredentials", "api_key">>,
     <<"APICredentialsUpdate", "api_secret", "APICredentials", "api_secret">>,
     <<"APICredentialsUpdate", "base_url", "APICredentials", "base_url">>,
     <<"APICredentialsUpdate", "is_active", "APICredentials", "is_active">>,
     <<"ReportInteractionCreate", "interaction_type", "ReportInteraction", "interaction_type">>,
     <<"ReportInteractionCreate", "question", "ReportInteraction", "question">>,
     <<"ReportSearch", "query", "SearchHistory", "search_query">>}

\* C9: every value (other than None) of a payload that a schema accepts, in
\* a field the schema shares with its entity, satisfies the entity field's
\* declaration, and a value the schema refuses does not.
C9_SchemasMatchEntities ==
    \A p \in SharedFields :
        (last.cls = p[1] /\ Given(p[2]) /\ last.kw[p[2]].t # "none") =>
            /\ last.res.ok => FieldValid(Fields(p[3])[p[4]], last.kw[p[2]])
            /\ p[2] \in last.res.errors => ~FieldValid(Fields(p[3])[p[4]], last.kw[p[2]])

----------------------------------------------------------------------------
\* Properties of the stored rows

Flushing(s) == pending[s] # NoOp /\ pending'[s] = NoOp
Done(s) == outcome[s] # NoOutcome
Username(s) == outcome[s].op.obj.username

\* C5: when two sessions have each inserted a User with the same username,
\* in whatever order the adds and flushes came, one insert succeeded, the
\* other was refused as a uniqueness violation, and one row has the username.
C5_OneInsertWins ==
    (Done("s1") /\ Done("s2") /\ Username("s1") = Username("s2")) =>
        /\ {outcome["s1"].kind, outcome["s2"].kind} = {"ok", "UniquenessViolation"}
        /\ Cardinality({i \in 1..Len(db["User"]) :
                           db["User"][i].username = Username("s1")}) = 1

\* s1 added first, s2 flushed first and won
C5_Witness ==
    /\ Done("s1") /\ Done("s2")
    /\ Username("s1") = Username("s2")
    /\ outcome["s1"].op.obj.email # outcome["s2"].op.obj.email
    /\ outcome["s2"].kind = "ok"
    /\ outcome["s1"].kind = "UniquenessViolation"
    /\ Len(db["User"]) = 1

UniqueColumns ==
    {<<"User", "username">>, <<"User", "email">>,
     <<"IBISWorldReport", "report_id">>, <<"ReportCache", "cache_key">>}

UniqueRows(tables) ==
    \A c \in UniqueColumns :
        \A i \in 1..Len(tables[c[1]]), j \in 1..Len(tables[c[1]]) :
            i # j => tables[c[1]][i][c[2]] # tables[c[1]][j][c[2]]

\* the operation op would give a unique column a value another row has
WouldDuplicate(op) ==
    LET vals == IF op.op = "insert" THEN op.obj ELSE op.changes
        self == IF op.op = "insert" THEN 0 ELSE op.id
    IN  \E c \in UniqueColumns :
            /\ c[1] = op.cls
            /\ c[2] \in DOMAIN vals
            /\ \E i \in 1..Len(db[op.cls]) : i # self /\ db[op.cls][i][c[2]] = vals[c[2]]

\* C6: after every step no two rows share a username, an email, a report_id
\* or a cache_key, and the flush of an insert or update that would duplicate
\* one of them is refused as a uniqueness violation and changes no row.
C6_UniqueColumns ==
    [][/\ UniqueRows(db')
       /\ \A s \in Sessions :
             (Flushing(s) /\ WouldDuplicate(pending[s])) =>
                 (db' = db /\ outcome'[s].kind = "UniquenessViolation")]_vars

\* a UserUpdate that would give a User the email of another was refused
C6_Witness ==
    /\ outcome["s1"].kind = "UniquenessViolation"
    /\ outcome["s1"].op.op = "update"
    /\ outcome["s1"].op.cls = "User"
    /\ "email" \in DOMAIN outcome["s1"].op.changes
    /\ Len(db["User"]) = 2
    /\ db["User"][3 - outcome["s1"].op.id].email = outcome["s1"].op.changes.email

\* <<table, column, target>>
ForeignKeys ==
    {<<"APICredentials", "created_by_user_id", "User">>,
     <<"ReportInteraction", "user_id", "User">>,
     <<"ReportInteraction", "report_id", "IBISWorldReport">>,
     <<"SearchHistory", "user_id", "User">>,
     <<"SearchResult", "search_history_id", "SearchHistory">>,
     <<"SearchResult", "report_id", "IBISWorldReport">>,
     <<"AuditLog", "user_id", "User">>}

\* the session's last operation named, as a foreign key, a row that is not there
Dangling(s) ==
    LET op == outcome[s].op
        vals == IF op.op = "insert" THEN op.obj ELSE op.changes
    IN  \E k \in ForeignKeys :
            /\ k[1] = op.cls
            /\ k[2] \in DOMAIN vals
            /\ vals[k[2]].t = "int"
            /\ vals[k[2]].n \notin 1..Len(db[k[3]])

\* the session's last operation left no required column without a value
Complete(s) ==
    outcome[s].op.op = "insert" =>
        NotNullOK(outcome[s].op.cls, ColumnValues(outcome[s].op.cls, outcome[s].op.obj))

C8_RankUniquePerSearch ==
    \A i \in 1..Len(db["SearchResult"]), j \in 1..Len(db["SearchResult"]) :
        (i # j /\ db["SearchResult"][i].search_history_id
                    = db["SearchResult"][j].search_history_id)
        => db["SearchResult"][i].result_rank # db["SearchResult"][j].result_rank

\* C10: every Decimal a write stored is read back equal to the value the
\* write was given, however often it is read and written back since: a
\* value with more decimal places than the column keeps is not stored rounded.
C10_DecimalRoundTrip ==
    \A w \in written :
        /\ db[w.cls][w.id][w.field].t = "dec"
        /\ NumEq(db[w.cls][w.id][w.field], w.value)

====
